---- MODULE Spec2Model ----
(***************************************************************************)
(* Request-admission and provider-dispatch pipeline of the image bot       *)
(* (src/main.py, src/image_provider.py).                                   *)
(*                                                                         *)
(* The bot runs on one asyncio event loop: a handler coroutine runs        *)
(* without interruption from one await to the next, so every action below  *)
(* is one such stretch of code.  A webhook request first awaits its body   *)
(* (main.py:250); once the body is read the update is parsed, routed and   *)
(* the handler runs up to its first await.  The handlers that call the     *)
(* provider suspend twice more: on send_action (main.py:167) and on the    *)
(* provider's HTTP call (main.py:169).  Every reply_text / reply_photo is  *)
(* the last statement its handler executes, so a reply is recorded when    *)
(* the handler issues it.                                                  *)
(*                                                                         *)
(* Strings the code parses (message texts, the access code, the prompt     *)
(* prefix) are sequences of one-character strings.                         *)
(*                                                                         *)
(* Four specifications run the same actions on different traffic: Spec     *)
(* (every handler, every access configuration), SpecDedup (many            *)
(* identities through the dedup window), SpecProvider (both providers and  *)
(* every response they can give) and SpecConcurrent (overlapping provider  *)
(* calls).                                                                 *)
(***************************************************************************)
EXTENDS Integers, Sequences, FiniteSets, TLC

VARIABLES
    allow_ids,              \* main.py:40   _allow_ids (fixed at start)
    ACCESS_CODE,            \* main.py:48   ACCESS_CODE (fixed at start)
    DEFAULT_PROMPT_PREFIX,  \* image_provider.py:22 (fixed at start)
    PROVIDER,               \* image_provider.py:12 (fixed at start)
    redeemed_ids,           \* main.py:49   _redeemed_ids
    SEEN_MSGS,              \* main.py:75   _SEEN_MSGS
    SEEN_ORDER,             \* main.py:76   _SEEN_ORDER
    pending,                \* webhook requests accepted, body not yet read
    tasks,                  \* handler coroutines suspended at an await
    budget,                 \* deliveries the run may still receive
    journal,                \* history: one entry per handler invocation
    failed_redeems,         \* history: users told their code was invalid
    inbox,                  \* history: the messages delivered so far
    last                    \* history: the delivery whose handler ran last

vars == <<allow_ids, ACCESS_CODE, DEFAULT_PROMPT_PREFIX, PROVIDER, redeemed_ids,
          SEEN_MSGS, SEEN_ORDER, pending, tasks, budget, journal,
          failed_redeems, inbox, last>>

(***************************************************************************)
(* Bounds of the model.  The code's _MAX_SEEN is 5000 (main.py:77); the    *)
(* model runs the same code with a window of MAX_SEEN entries.             *)
(***************************************************************************)
MAX_SEEN == 2
MaxDeliveries == 3
MaxDedupDeliveries == 4
MaxInFlight == 2
MaxProviderDeliveries == 2

Users == {1, 2}

(***************************************************************************)
(* Python string helpers used by the code.                                 *)
(***************************************************************************)
Whitespace == {" ", "\t", "\n"}

RECURSIVE LStrip(_)
LStrip(s) ==
    IF s = <<>> THEN s
    ELSE IF Head(s) \in Whitespace THEN LStrip(Tail(s)) ELSE s

RECURSIVE RStrip(_)
RStrip(s) ==
    IF s = <<>> THEN s
    ELSE IF s[Len(s)] \in Whitespace THEN RStrip(SubSeq(s, 1, Len(s) - 1)) ELSE s

\* str.strip()
Strip(s) == RStrip(LStrip(s))

\* index of the first whitespace character of s, Len(s) + 1 when there is none
FirstSpace(s) ==
    IF \E i \in 1..Len(s) : s[i] \in Whitespace
    THEN CHOOSE i \in 1..Len(s) :
            /\ s[i] \in Whitespace
            /\ \A j \in 1..(i - 1) : s[j] \notin Whitespace
    ELSE Len(s) + 1

\* str.split(maxsplit=1): leading whitespace is skipped, the first word is cut
\* at the first run of whitespace, the remainder keeps its trailing whitespace
SplitMax1(s) ==
    LET a == LStrip(s) IN
    IF a = <<>> THEN <<>>
    ELSE LET n    == FirstSpace(a)
             word == SubSeq(a, 1, n - 1)
             rest == LStrip(SubSeq(a, n, Len(a)))
         IN IF rest = <<>> THEN <<word>> ELSE <<word, rest>>

\* str.startswith(p)
StartsWith(s, p) == Len(s) >= Len(p) /\ SubSeq(s, 1, Len(p)) = p

\* p in s (substring test)
IsInfix(p, s) ==
    \E i \in 0..(Len(s) - Len(p)) : SubSeq(s, i + 1, i + Len(p)) = p


(***************************************************************************)
(* Inbound messages.  A message is [chat, message_id, user, text]; private *)
(* chats have positive ids, groups negative ones.                          *)
(***************************************************************************)
T_start      == <<"/", "s", "t", "a", "r", "t">>
T_help       == <<"/", "h", "e", "l", "p">>
T_info       == <<"/", "i", "n", "f", "o">>
T_status     == <<"/", "s", "t", "a", "t", "u", "s">>
T_redeem     == <<"/", "r", "e", "d", "e", "e", "m">>
T_redeem_ab  == T_redeem \o <<" ", "a", "b">>
T_redeem_a   == T_redeem \o <<" ", "a">>
T_pic        == <<"/", "p", "i", "c">>
T_pic_cat    == T_pic \o <<" ", " ", "a", " ", "c", "a", "t">>
T_cat        == <<"a", " ", "c", "a", "t">>
T_blank      == <<" ">>

Texts == {T_start, T_help, T_info, T_status, T_redeem, T_redeem_ab,
          T_redeem_a, T_pic, T_pic_cat, T_cat, T_blank}

Message(c, i, u, t) == [chat |-> c, message_id |-> i, user |-> u, text |-> t]

Messages ==
    {Message(c, 1, u, t) : c \in {1, -1}, u \in Users, t \in Texts \ {T_blank}}
    \cup {Message(1, 1, u, T_blank) : u \in Users}

\* the runs that exercise the dedup window: two group chats, one text per
\* handler, none with a prompt, so that every handler returns at once
DedupMessages ==
    {Message(-1, i, 1, t) : i \in {1, 2}, t \in {T_start, T_help, T_info, T_status}}
    \cup {Message(-2, i, 1, t) : i \in {1, 2}, t \in {T_redeem, T_pic, T_cat}}

\* the runs that exercise the provider adapters: prompts, by command and as
\* free text, in a private chat, a group and a supergroup, and the redeem
\* that admits a requester
ProviderMessages ==
    {Message(1, 1, u, T_pic_cat) : u \in Users}
    \cup {Message(-2, 1, 1, T_pic_cat), Message(1, 1, 1, T_cat)}
    \cup {Message(c, 1, u, T_cat) : c \in {-1, -2}, u \in Users}
    \cup {Message(1, 2, 2, T_redeem_ab)}

\* the runs that exercise overlapping provider calls: two requesters with a
\* prompt each, one of whom has to redeem first
ConcurrentMessages ==
    {Message(1, 1, 1, T_pic_cat), Message(2, 1, 2, T_redeem_ab),
     Message(2, 2, 2, T_pic_cat), Message(-1, 1, 2, T_pic_cat)}

ChatTypeOf(c) == IF c > 0 THEN "private" ELSE IF c = -1 THEN "group" ELSE "supergroup"

AccessCodes == {<<>>, <<"a", "b">>}
AllowLists  == {{}, {1}}
Prefixes    == {<<>>, <<"P">>}
Providers   == {"openai", "stability"}

(***************************************************************************)
(* Routing of an update to its handler (main.py:230-236): a command goes   *)
(* to the CommandHandler registered for its name, text that is no command  *)
(* goes to handle_text, an unregistered command goes nowhere.              *)
(***************************************************************************)
CommandName(text) ==
    LET word == SplitMax1(text)[1]
        at   == IF \E i \in 1..Len(word) : word[i] = "@"
                THEN CHOOSE i \in 1..Len(word) :
                        word[i] = "@" /\ \A j \in 1..(i - 1) : word[j] # "@"
                ELSE Len(word) + 1
    IN SubSeq(word, 2, at - 1)

Route(text) ==
    IF text = <<>> THEN "none"
    ELSE IF Head(text) # "/" THEN "text"
    ELSE LET c == CommandName(text) IN
         IF c = Tail(T_start) THEN "start"
         ELSE IF c = Tail(T_help) THEN "help"
         ELSE IF c = Tail(T_info) THEN "info"
         ELSE IF c = Tail(T_status) THEN "status"
         ELSE IF c = Tail(T_redeem) THEN "redeem"
         ELSE IF c = Tail(T_pic) THEN "pic"
         ELSE "none"

\* the routing of the texts the model delivers
RouteOf == [t \in Texts |-> Route(t)]

(***************************************************************************)
(* Replies.  A reply is [kind, body]; the body is a sequence of strings:   *)
(* a fixed text is one string, the photo caption is its fixed head         *)
(* followed by the characters of the prompt.                               *)
(***************************************************************************)
Text(b)  == [kind |-> "text", body |-> <<b>>]
Photo(c) == [kind |-> "photo", body |-> c]

R_START       == "Hey! + HELP"
R_HELP        == "HELP"
R_INFO        == "This bot generates images from your text prompt using a fixed project reference image."
R_STATUS      == "Ref image: .. Webhook: .."
R_NOT_REQ     == "Redeem not required."
R_REDEEM_USE  == "Usage: /redeem <CODE>"
R_UNLOCKED    == "Access unlocked!"
R_INVALID     == "Invalid code."
R_PIC_USE     == "Usage: /pic <your prompt>"
R_LOCKED      == "Access restricted."
R_LOCKED_DM   == "Access restricted. If you have a code, DM me and send /redeem <CODE>."
R_LOCKED_CODE == "Access restricted. If you have a code, send /redeem <CODE>."
R_BLOCKED     == "Sorry, this image can't be generated due to copyright or content restrictions."
R_FAILED      == "Something went wrong while generating the image. Please try again later."
CAPTION_HEAD  == <<"Done!\nPrompt: ">>

RestrictedNotices == {Text(R_LOCKED), Text(R_LOCKED_DM), Text(R_LOCKED_CODE)}


(***************************************************************************)
(* De-duplication guard (main.py:75-91).                                   *)
(***************************************************************************)
NoKey == <<0, 0>>

\* the delivery identity (conversation id, delivery id) the history records
Identity(m) == <<m.chat, m.message_id>>

\* main.py:83  key = (msg.chat.id, msg.message_id)
DedupKey(m) == <<m.chat, m.message_id>>

\* main.py:84  key in _SEEN_MSGS
IsSeen(msgs, key) == key \in msgs

AddSeen_forgets(msgs, key) == msgs

\* main.py:86  _SEEN_MSGS.add(key)
AddSeen(msgs, key) == msgs \cup {key}

\* main.py:88  len(_SEEN_ORDER) > _MAX_SEEN
OverCapacity(order) == Len(order) > MAX_SEEN

PopLeft_pops_right(order) ==
    [old |-> order[Len(order)], rest |-> SubSeq(order, 1, Len(order) - 1)]

\* main.py:89  _SEEN_ORDER.popleft(): the entry removed and what is left
PopLeft(order) == [old |-> Head(order), rest |-> Tail(order)]

Discard_keeps(msgs, old) == msgs

\* main.py:90  _SEEN_MSGS.discard(old)
Discard(msgs, old) == msgs \ {old}

already_processed_check_only(msgs, order, key) ==
    [ret |-> key \in msgs, msgs |-> msgs, order |-> order]

\* _already_processed on the window (msgs, order): the value returned and the
\* window it leaves behind
already_processed(msgs, order, key) ==
    IF IsSeen(msgs, key)
    THEN [ret |-> TRUE, msgs |-> msgs, order |-> order]
    ELSE LET msgs1  == AddSeen(msgs, key)
             order1 == Append(order, key)
         IN IF OverCapacity(order1)
            THEN [ret   |-> FALSE,
                  msgs  |-> Discard(msgs1, PopLeft(order1).old),
                  order |-> PopLeft(order1).rest]
            ELSE [ret |-> FALSE, msgs |-> msgs1, order |-> order1]

(***************************************************************************)
(* Access guard and prompt extraction (main.py:96-119).                    *)
(***************************************************************************)
is_allowed_user_allow_list_only(user_id) ==
    IF allow_ids # {} THEN user_id \in allow_ids
    ELSE IF ACCESS_CODE # <<>> THEN user_id \in redeemed_ids
    ELSE TRUE

is_allowed_user(user_id) ==
    IF allow_ids # {}
    THEN IF user_id \in allow_ids THEN TRUE
         ELSE IF ACCESS_CODE # <<>> /\ user_id \in redeemed_ids THEN TRUE
         ELSE FALSE
    ELSE IF ACCESS_CODE # <<>> THEN user_id \in redeemed_ids
    ELSE TRUE

extract_pic_prompt_whole_text(text) == Strip(text)

\* main.py:108-119
extract_pic_prompt(text) ==
    LET t == Strip(text) IN
    IF t = <<>> THEN <<>>
    ELSE LET parts == SplitMax1(t) IN
         IF parts = <<>> THEN <<>>
         ELSE IF StartsWith(parts[1], T_pic)
              THEN IF Len(parts) = 1 THEN <<>> ELSE Strip(parts[2])
              ELSE <<>>

prepend_prefix_no_space(prompt) ==
    IF DEFAULT_PROMPT_PREFIX # <<>>
    THEN Strip(DEFAULT_PROMPT_PREFIX \o prompt)
    ELSE prompt

\* image_provider.py:34-38
prepend_prefix(prompt) ==
    IF DEFAULT_PROMPT_PREFIX # <<>>
    THEN Strip(DEFAULT_PROMPT_PREFIX \o <<" ">> \o prompt)
    ELSE prompt

(***************************************************************************)
(* What a handler does with message m up to its first await, dup being     *)
(* the value _already_processed returned to it: the replies it sends, the  *)
(* redeemed set it leaves, and whether it goes on to _generate_and_reply   *)
(* with a prompt.                                                          *)
(***************************************************************************)
Reply(r) == [replies |-> <<r>>, redeemed |-> redeemed_ids, generate |-> FALSE, prompt |-> <<>>]
Silent   == [replies |-> <<>>, redeemed |-> redeemed_ids, generate |-> FALSE, prompt |-> <<>>]
Generate(p) == [replies |-> <<>>, redeemed |-> redeemed_ids, generate |-> TRUE, prompt |-> p]

start_cmd(m, dup)  == IF dup THEN Silent ELSE Reply(Text(R_START))
help_cmd(m, dup)   == IF dup THEN Silent ELSE Reply(Text(R_HELP))
info_cmd_unguarded(m, dup) == Reply(Text(R_INFO))

info_cmd(m, dup)   == IF dup THEN Silent ELSE Reply(Text(R_INFO))
status_cmd(m, dup) == IF dup THEN Silent ELSE Reply(Text(R_STATUS))

CodeMatches_prefix(code) == StartsWith(ACCESS_CODE, code)

\* main.py:160  code == ACCESS_CODE
CodeMatches(code) == code = ACCESS_CODE

Redeemed_chat(ids, m) == ids \cup {m.chat}

\* main.py:161  _redeemed_ids.add(update.effective_user.id)
Redeemed(ids, m) == ids \cup {m.user}

redeem_cmd_records_attempt(m, dup) ==
    IF dup THEN Silent
    ELSE IF ACCESS_CODE = <<>> THEN Reply(Text(R_NOT_REQ))
    ELSE LET parts == SplitMax1(m.text) IN
         IF Len(parts) < 2 THEN Reply(Text(R_REDEEM_USE))
         ELSE IF CodeMatches(Strip(parts[2]))
              THEN [Reply(Text(R_UNLOCKED)) EXCEPT !.redeemed = Redeemed(redeemed_ids, m)]
              ELSE [Reply(Text(R_INVALID)) EXCEPT !.redeemed = Redeemed(redeemed_ids, m)]

\* main.py:149-164
redeem_cmd(m, dup) ==
    IF dup THEN Silent
    ELSE IF ACCESS_CODE = <<>> THEN Reply(Text(R_NOT_REQ))
    ELSE LET parts == SplitMax1(m.text) IN
         IF Len(parts) < 2 THEN Reply(Text(R_REDEEM_USE))
         ELSE IF CodeMatches(Strip(parts[2]))
              THEN [Reply(Text(R_UNLOCKED)) EXCEPT !.redeemed = Redeemed(redeemed_ids, m)]
              ELSE Reply(Text(R_INVALID))

pic_cmd_prompt_first(m, dup) ==
    IF dup THEN Silent
    ELSE LET user_prompt == extract_pic_prompt(m.text) IN
         IF user_prompt = <<>> THEN Reply(Text(R_PIC_USE))
         ELSE IF ~is_allowed_user(m.user)
              THEN IF ACCESS_CODE # <<>> THEN Reply(Text(R_LOCKED_DM)) ELSE Reply(Text(R_LOCKED))
              ELSE Generate(user_prompt)

pic_cmd_unguarded(m, dup) ==
    IF ~is_allowed_user(m.user)
    THEN IF ACCESS_CODE # <<>> THEN Reply(Text(R_LOCKED_DM)) ELSE Reply(Text(R_LOCKED))
    ELSE LET user_prompt == extract_pic_prompt(m.text) IN
         IF user_prompt = <<>> THEN Reply(Text(R_PIC_USE))
         ELSE Generate(user_prompt)

\* main.py:183-201
pic_cmd(m, dup) ==
    IF dup THEN Silent
    ELSE IF ~is_allowed_user(m.user)
    THEN IF ACCESS_CODE # <<>> THEN Reply(Text(R_LOCKED_DM)) ELSE Reply(Text(R_LOCKED))
    ELSE LET user_prompt == extract_pic_prompt(m.text) IN
         IF user_prompt = <<>> THEN Reply(Text(R_PIC_USE))
         ELSE Generate(user_prompt)

handle_text_any_chat(m, dup) ==
    IF dup THEN Silent
    ELSE IF m.text = <<>> THEN Silent
    ELSE IF ~is_allowed_user(m.user)
         THEN IF ACCESS_CODE # <<>> THEN Reply(Text(R_LOCKED_CODE)) ELSE Reply(Text(R_LOCKED))
         ELSE LET user_prompt == Strip(m.text) IN
              IF user_prompt = <<>> \/ StartsWith(user_prompt, <<"/">>) THEN Silent
              ELSE Generate(user_prompt)

\* main.py:203-227
handle_text(m, dup) ==
    IF dup THEN Silent
    ELSE IF m.text = <<>> THEN Silent
    ELSE IF ChatTypeOf(m.chat) \in {"group", "supergroup"} THEN Silent
    ELSE IF ~is_allowed_user(m.user)
         THEN IF ACCESS_CODE # <<>> THEN Reply(Text(R_LOCKED_CODE)) ELSE Reply(Text(R_LOCKED))
         ELSE LET user_prompt == Strip(m.text) IN
              IF user_prompt = <<>> \/ StartsWith(user_prompt, <<"/">>) THEN Silent
              ELSE Generate(user_prompt)

PhotoReply_full_prompt(user_prompt) == Photo(CAPTION_HEAD \o prepend_prefix(user_prompt))

\* main.py:178-181  the photo reply of _generate_and_reply
PhotoReply(user_prompt) == Photo(CAPTION_HEAD \o user_prompt)

(***************************************************************************)
(* The provider's HTTP exchange as the adapters see it                     *)
(* (image_provider.py:81-110, 137-158).  A response is                     *)
(*   net     "ok", or "error" when client.post raises (no connection,      *)
(*           timeout): an httpx exception, not an ImageGenError            *)
(*   status  r.status_code                                                 *)
(*   ctype   r.headers.get("Content-Type", ""), a sequence of tokens       *)
(*   text    r.text, a sequence of characters                              *)
(*   json    whether r.json() parses the body                              *)
(*   entries the length of the "data" / "artifacts" list of the body       *)
(*   b64     the base64 field of its first entry: "absent" (missing or     *)
(*           empty), "valid", or "invalid" (b64decode raises)              *)
(*   url     whether the first entry has a non-empty "url"                 *)
(*   fetch   how the secondary GET of that url ends if it is issued        *)
(*   image   the image bytes the response carries                          *)
(* The API keys are taken to be configured.                                *)
(***************************************************************************)
BodyTexts == {<<"S", "a", "f", "e", "t", "y">>,
              <<"r", "e", "j", "e", "c", "t", "e", "d">>,
              <<"b", "u", "s", "y">>}

C_json         == <<"application/json">>
C_json_charset == <<"application/json", "; charset=utf-8">>
C_png          == <<"image/", "png">>
C_html         == <<"text/", "html">>

Response(n, s, c, t, j, e, b, u, f) ==
    [net |-> n, status |-> s, ctype |-> c, text |-> t, json |-> j, entries |-> e,
     b64 |-> b, url |-> u, fetch |-> f, image |-> "PNG"]

NoResponse  == Response("none", 0, <<>>, <<>>, FALSE, 0, "absent", FALSE, "ok")
Unreachable == Response("error", 0, <<>>, <<>>, FALSE, 0, "absent", FALSE, "ok")
HttpError(t) == Response("ok", 400, C_json, t, TRUE, 0, "absent", FALSE, "ok")

\* what the images/edits endpoint can answer
OpenAIResponses ==
    {Unreachable}
    \cup {HttpError(t) : t \in BodyTexts}
    \cup {Response("ok", 200, C_html, <<>>, FALSE, 0, "absent", FALSE, "ok")}
    \cup {Response("ok", 200, C_json, <<>>, TRUE, 0, "absent", FALSE, "ok")}
    \cup {Response("ok", 200, C_json, <<>>, TRUE, 1, b, FALSE, "ok") :
            b \in {"absent", "valid", "invalid"}}
    \cup {Response("ok", 200, C_json, <<>>, TRUE, 1, b, TRUE, f) :
            b \in {"absent", "valid", "invalid"}, f \in {"ok", "error"}}

\* what the image-to-image endpoint can answer
StabilityResponses ==
    {Unreachable}
    \cup {HttpError(t) : t \in BodyTexts}
    \cup {Response("ok", 200, c, <<>>, FALSE, 0, "absent", FALSE, "ok") :
            c \in {C_json, C_png, C_html, <<>>}}
    \cup {Response("ok", 200, c, <<>>, TRUE, e, b, FALSE, "ok") :
            c \in {C_json, C_json_charset}, e \in {0, 1},
            b \in {"absent", "valid", "invalid"}}

\* one response of each kind _generate_and_reply tells apart
CoreResponses ==
    {Unreachable,
     HttpError(<<"S", "a", "f", "e", "t", "y">>),
     HttpError(<<"b", "u", "s", "y">>),
     Response("ok", 200, C_json, <<>>, TRUE, 1, "valid", FALSE, "ok")}

ResponsesOf(provider) ==
    IF provider = "stability" THEN StabilityResponses ELSE OpenAIResponses

(***************************************************************************)
(* What an adapter call ends with: the bytes returned, an ImageGenError    *)
(* with its message, or another exception.  err names the raise statement  *)
(* (the code has one error class and no kinds), gets counts the secondary  *)
(* GET requests issued.  A message is a sequence of strings: the fixed     *)
(* parts are one string each, r.text is spelled out.                       *)
(***************************************************************************)
Bytes(b, gets)    == [kind |-> "bytes", err |-> "none", text |-> <<>>, bytes |-> b, gets |-> gets]
ImageGenError(err, text, gets) ==
    [kind |-> "ImageGenError", err |-> err, text |-> text, bytes |-> "", gets |-> gets]
Raised(err)       == [kind |-> "exception", err |-> err, text |-> <<>>, bytes |-> "", gets |-> 0]
NoResult          == [kind |-> "none", err |-> "none", text |-> <<>>, bytes |-> "", gets |-> 0]

StatusText(n) == IF n = 200 THEN "200" ELSE IF n = 400 THEN "400" ELSE "0"

openai_img_edit_url_first(prompt, r) ==
    IF r.net = "error" THEN Raised("httpx")
    ELSE IF r.status # 200
    THEN ImageGenError("ProviderHTTP", <<"OpenAI error ", StatusText(r.status), ": ">> \o r.text, 0)
    ELSE IF ~r.json THEN Raised("json")
    ELSE IF r.entries = 0 THEN ImageGenError("ProviderEmpty", <<"OpenAI returned no data">>, 0)
    ELSE IF r.url
    THEN IF r.fetch = "ok" THEN Bytes(r.image, 1)
         ELSE ImageGenError("ProviderFetch", <<"Failed to download image from OpenAI URL: ", "e">>, 1)
    ELSE IF r.b64 # "absent"
    THEN IF r.b64 = "valid" THEN Bytes(r.image, 0)
         ELSE ImageGenError("ProviderDecode", <<"Failed to decode OpenAI base64 image: ", "e">>, 0)
    ELSE ImageGenError("ProviderEmpty", <<"No image payload in OpenAI response (no b64_json or url).">>, 0)

\* image_provider.py:81-110
openai_img_edit(prompt, r) ==
    IF r.net = "error" THEN Raised("httpx")
    ELSE IF r.status # 200
    THEN ImageGenError("ProviderHTTP", <<"OpenAI error ", StatusText(r.status), ": ">> \o r.text, 0)
    ELSE IF ~r.json THEN Raised("json")
    ELSE IF r.entries = 0 THEN ImageGenError("ProviderEmpty", <<"OpenAI returned no data">>, 0)
    ELSE IF r.b64 # "absent"
    THEN IF r.b64 = "valid" THEN Bytes(r.image, 0)
         ELSE ImageGenError("ProviderDecode", <<"Failed to decode OpenAI base64 image: ", "e">>, 0)
    ELSE IF r.url
    THEN IF r.fetch = "ok" THEN Bytes(r.image, 1)
         ELSE ImageGenError("ProviderFetch", <<"Failed to download image from OpenAI URL: ", "e">>, 1)
    ELSE ImageGenError("ProviderEmpty", <<"No image payload in OpenAI response (no b64_json or url).">>, 0)

\* image_provider.py:137-158
stability_img2img(prompt, r) ==
    IF r.net = "error" THEN Raised("httpx")
    ELSE IF r.status # 200
    THEN ImageGenError("ProviderHTTP", <<"Stability error ", StatusText(r.status), ": ">> \o r.text, 0)
    ELSE IF IsInfix(C_json, r.ctype)
    THEN IF ~r.json
         THEN ImageGenError("ProviderFormat", <<"Unexpected Stability response format: ", "e">>, 0)
         ELSE IF r.entries = 0 \/ r.b64 = "absent"
              THEN ImageGenError("ProviderEmpty", <<"No image in Stability response">>, 0)
              ELSE IF r.b64 = "valid" THEN Bytes(r.image, 0) ELSE Raised("binascii")
    ELSE IF StartsWith(r.ctype, <<"image/">>) THEN Bytes(r.image, 0)
    ELSE ImageGenError("ProviderUnrecognized",
                       <<"Unrecognized Stability response type: ">> \o r.ctype, 0)

\* image_provider.py:40-48
generate_image_from_reference(prompt, r) ==
    LET full_prompt == prepend_prefix(prompt) IN
    IF PROVIDER = "stability" THEN stability_img2img(full_prompt, r)
    ELSE openai_img_edit(full_prompt, r)

(***************************************************************************)
(* What _generate_and_reply makes of the call (main.py:168-181): image     *)
(* bytes, an ImageGenError whose lowercased text mentions one of the       *)
(* keywords, an ImageGenError whose text mentions none, or an exception    *)
(* that is not an ImageGenError and is not caught.                         *)
(***************************************************************************)
UpperCase == <<"A", "B", "C", "D", "E", "F", "G", "H", "I", "J", "K", "L", "M",
               "N", "O", "P", "Q", "R", "S", "T", "U", "V", "W", "X", "Y", "Z">>
LowerCase == <<"a", "b", "c", "d", "e", "f", "g", "h", "i", "j", "k", "l", "m",
               "n", "o", "p", "q", "r", "s", "t", "u", "v", "w", "x", "y", "z">>

\* str.lower(); the fixed parts of a message hold none of the keywords
Lower(s) ==
    [i \in 1..Len(s) |->
        IF \E n \in 1..26 : UpperCase[n] = s[i]
        THEN LowerCase[CHOOSE n \in 1..26 : UpperCase[n] = s[i]]
        ELSE s[i]]

K_moderation == <<"m", "o", "d", "e", "r", "a", "t", "i", "o", "n">>
K_safety     == <<"s", "a", "f", "e", "t", "y">>
K_rejected   == <<"r", "e", "j", "e", "c", "t", "e", "d">>

\* main.py:171-172
MentionsRestriction(text) ==
    LET err_text == Lower(text) IN
    IsInfix(K_moderation, err_text) \/ IsInfix(K_safety, err_text)
        \/ IsInfix(K_rejected, err_text)

ProviderOutcomes == {"image", "error_restricted", "error_other", "exception"}

\* main.py:168-176  which branch the call's result takes
OutcomeOf(result) ==
    IF result.kind = "bytes" THEN "image"
    ELSE IF result.kind = "ImageGenError"
    THEN IF MentionsRestriction(result.text) THEN "error_restricted" ELSE "error_other"
    ELSE "exception"

FailureReply(outcome) ==
    IF outcome = "error_restricted" THEN <<Text(R_BLOCKED)>>
    ELSE IF outcome = "error_other" THEN <<Text(R_FAILED)>>
    ELSE <<>>


(***************************************************************************)
(* State after module load (main.py:40-49, 75-76) and the history          *)
(* variables.                                                              *)
(***************************************************************************)
NoDelivery ==
    [id |-> 0, key |-> NoKey, user |-> 0, text |-> <<>>, handler |-> "none",
     seen |-> FALSE, replies |-> <<>>, calls |-> 0, outcome |-> "none",
     before |-> {}, pc |-> "none", sent |-> <<>>, response |-> NoResponse,
     result |-> NoResult]

Loaded ==
    /\ redeemed_ids = {}
    /\ SEEN_MSGS = {}
    /\ SEEN_ORDER = <<>>
    /\ pending = 0
    /\ tasks = {}
    /\ journal = <<>>
    /\ failed_redeems = {}
    /\ inbox = {}
    /\ last = NoDelivery

Init ==
    /\ allow_ids \in AllowLists
    /\ ACCESS_CODE \in AccessCodes
    /\ DEFAULT_PROMPT_PREFIX \in Prefixes
    /\ PROVIDER = "openai"
    /\ budget = MaxDeliveries
    /\ Loaded

\* either provider: the runs that exercise the adapters
InitProvider ==
    /\ allow_ids \in AllowLists
    /\ ACCESS_CODE \in AccessCodes
    /\ DEFAULT_PROMPT_PREFIX \in Prefixes
    /\ PROVIDER \in Providers
    /\ budget = MaxProviderDeliveries
    /\ Loaded

\* an allow-list and a code: the runs that exercise overlapping calls
InitConcurrent ==
    /\ allow_ids = {1}
    /\ ACCESS_CODE = <<"a", "b">>
    /\ DEFAULT_PROMPT_PREFIX = <<>>
    /\ PROVIDER = "openai"
    /\ budget = MaxDeliveries
    /\ Loaded

\* open access, no prefix: the runs that exercise the dedup window
InitDedup ==
    /\ allow_ids = {}
    /\ ACCESS_CODE = <<>>
    /\ DEFAULT_PROMPT_PREFIX = <<>>
    /\ PROVIDER = "openai"
    /\ budget = MaxDedupDeliveries
    /\ Loaded

Config == <<allow_ids, ACCESS_CODE, DEFAULT_PROMPT_PREFIX, PROVIDER>>

(***************************************************************************)
(* telegram_webhook (main.py:245-250): a request with the right secret is  *)
(* accepted and waits for its body.                                        *)
(***************************************************************************)
Webhook ==
    /\ budget > 0
    /\ pending + Cardinality(tasks) < MaxInFlight
    /\ pending' = pending + 1
    /\ budget' = budget - 1
    /\ UNCHANGED <<Config, redeemed_ids, SEEN_MSGS, SEEN_ORDER, tasks, journal,
                   failed_redeems, inbox, last>>

(***************************************************************************)
(* One handler invocation on message m, from the dedup guard to the        *)
(* handler's first await or its return.  body[dup] is what the handler     *)
(* does given the guard's answer.  An identity names one message: a        *)
(* delivery that repeats an identity repeats the message.                  *)
(***************************************************************************)
Invoke(m, handler, body) ==
    LET d   == already_processed(SEEN_MSGS, SEEN_ORDER, DedupKey(m))
        id  == Len(journal) + 1
        act == body[d.ret]
        pc  == IF act.generate THEN "send_action" ELSE "done"
    IN
    /\ pending > 0
    /\ RouteOf[m.text] = handler
    /\ \A x \in inbox : Identity(x) = Identity(m) => x = m
    /\ inbox' = inbox \cup {m}
    /\ pending' = pending - 1
    /\ SEEN_MSGS' = d.msgs
    /\ SEEN_ORDER' = d.order
    /\ redeemed_ids' = act.redeemed
    /\ tasks' = IF act.generate
                THEN tasks \cup {[id |-> id, key |-> Identity(m), user |-> m.user,
                                  text |-> m.text, handler |-> handler,
                                  prompt |-> act.prompt, pc |-> "send_action",
                                  sent |-> <<>>]}
                ELSE tasks
    /\ journal' = Append(journal, [key |-> Identity(m), seen |-> d.ret,
                                   replies |-> Len(act.replies),
                                   done |-> ~act.generate])
    /\ failed_redeems' = IF act.replies = <<Text(R_INVALID)>>
                         THEN failed_redeems \cup {m.user}
                         ELSE failed_redeems
    /\ last' = [id |-> id, key |-> Identity(m), user |-> m.user, text |-> m.text,
                handler |-> handler, seen |-> d.ret, replies |-> act.replies,
                calls |-> 0, outcome |-> "none", before |-> redeemed_ids, pc |-> pc,
                sent |-> <<>>, response |-> NoResponse, result |-> NoResult]
    /\ UNCHANGED <<Config, budget>>

StartCmd(m) == Invoke(m, "start", [dup \in BOOLEAN |-> start_cmd(m, dup)])
HelpCmd(m) == Invoke(m, "help", [dup \in BOOLEAN |-> help_cmd(m, dup)])
InfoCmd(m) == Invoke(m, "info", [dup \in BOOLEAN |-> info_cmd(m, dup)])
StatusCmd(m) == Invoke(m, "status", [dup \in BOOLEAN |-> status_cmd(m, dup)])
RedeemCmd(m) == Invoke(m, "redeem", [dup \in BOOLEAN |-> redeem_cmd(m, dup)])
PicCmd(m) == Invoke(m, "pic", [dup \in BOOLEAN |-> pic_cmd(m, dup)])
HandleText(m) == Invoke(m, "text", [dup \in BOOLEAN |-> handle_text(m, dup)])

(***************************************************************************)
(* An update whose .message is absent (an edited message, a channel post): *)
(* _already_processed returns False without recording anything             *)
(* (main.py:81-82); the command handlers then fail on update.message and   *)
(* handle_text returns (main.py:208), with no reply either way.            *)
(***************************************************************************)
UpdateWithoutMessage ==
    /\ pending > 0
    /\ pending' = pending - 1
    /\ journal' = Append(journal, [key |-> NoKey, seen |-> FALSE, replies |-> 0, done |-> TRUE])
    /\ last' = [NoDelivery EXCEPT !.id = Len(journal) + 1, !.before = redeemed_ids,
                                  !.pc = "done"]
    /\ UNCHANGED <<Config, redeemed_ids, SEEN_MSGS, SEEN_ORDER, tasks, budget,
                   failed_redeems, inbox>>

(***************************************************************************)
(* _generate_and_reply (main.py:166-181), resumed after each await.        *)
(***************************************************************************)
Finish(t, replies, calls, r, result) ==
    /\ tasks' = tasks \ {t}
    /\ journal' = [journal EXCEPT ![t.id].replies = Len(replies), ![t.id].done = TRUE]
    /\ last' = [id |-> t.id, key |-> t.key, user |-> t.user, text |-> t.text,
                handler |-> t.handler, seen |-> FALSE, replies |-> replies,
                calls |-> calls,
                outcome |-> IF calls = 0 THEN "none" ELSE OutcomeOf(result),
                before |-> redeemed_ids, pc |-> "done", sent |-> t.sent,
                response |-> r, result |-> result]
    /\ UNCHANGED <<Config, redeemed_ids, SEEN_MSGS, SEEN_ORDER, pending, budget,
                   failed_redeems, inbox>>

CallProvider_exclusive(t) ==
    /\ t \in tasks
    /\ t.pc = "send_action"
    /\ \A u \in tasks : u.pc # "generate"
    /\ tasks' = (tasks \ {t}) \cup {[t EXCEPT !.pc = "generate",
                                              !.sent = prepend_prefix(t.prompt)]}
    /\ last' = [id |-> t.id, key |-> t.key, user |-> t.user, text |-> t.text,
                handler |-> t.handler, seen |-> FALSE, replies |-> <<>>,
                calls |-> 1, outcome |-> "none", before |-> redeemed_ids,
                pc |-> "generate", sent |-> prepend_prefix(t.prompt),
                response |-> NoResponse, result |-> NoResult]
    /\ UNCHANGED <<Config, redeemed_ids, SEEN_MSGS, SEEN_ORDER, pending, budget,
                   journal, failed_redeems, inbox>>

\* send_action returned: the provider is called with the prefixed prompt and
\* awaited (main.py:169, image_provider.py:44-48)
CallProvider(t) ==
    /\ t \in tasks
    /\ t.pc = "send_action"
    /\ tasks' = (tasks \ {t}) \cup {[t EXCEPT !.pc = "generate",
                                              !.sent = prepend_prefix(t.prompt)]}
    /\ last' = [id |-> t.id, key |-> t.key, user |-> t.user, text |-> t.text,
                handler |-> t.handler, seen |-> FALSE, replies |-> <<>>,
                calls |-> 1, outcome |-> "none", before |-> redeemed_ids,
                pc |-> "generate", sent |-> prepend_prefix(t.prompt),
                response |-> NoResponse, result |-> NoResult]
    /\ UNCHANGED <<Config, redeemed_ids, SEEN_MSGS, SEEN_ORDER, pending, budget,
                   journal, failed_redeems, inbox>>

\* send_action raised: the handler ends before the provider is called
SendActionFails(t) ==
    /\ t \in tasks
    /\ t.pc = "send_action"
    /\ Finish(t, <<>>, 0, NoResponse, NoResult)

\* the provider answered r: the adapter returns or raises, and
\* _generate_and_reply replies (main.py:169-181)
ProviderReturns(t, r) ==
    LET result  == generate_image_from_reference(t.prompt, r)
        outcome == OutcomeOf(result)
    IN
    /\ t \in tasks
    /\ t.pc = "generate"
    /\ Finish(t, IF outcome = "image" THEN <<PhotoReply(t.prompt)>> ELSE FailureReply(outcome),
              1, r, result)

Resume ==
    \E t \in tasks :
        \/ CallProvider(t)
        \/ SendActionFails(t)
        \/ \E r \in CoreResponses : ProviderReturns(t, r)

\* the same with every response the configured provider can give
ResumeAnyResponse ==
    \E t \in tasks :
        \/ CallProvider(t)
        \/ SendActionFails(t)
        \/ \E r \in ResponsesOf(PROVIDER) : ProviderReturns(t, r)

Dispatch(m) ==
    \/ StartCmd(m)
    \/ HelpCmd(m)
    \/ InfoCmd(m)
    \/ StatusCmd(m)
    \/ RedeemCmd(m)
    \/ PicCmd(m)
    \/ HandleText(m)

Next ==
    \/ Webhook
    \/ \E m \in Messages : Dispatch(m)
    \/ UpdateWithoutMessage
    \/ Resume

NextDedup ==
    \/ Webhook
    \/ \E m \in DedupMessages : Dispatch(m)
    \/ UpdateWithoutMessage

NextProvider ==
    \/ Webhook
    \/ \E m \in ProviderMessages : RedeemCmd(m) \/ PicCmd(m) \/ HandleText(m)
    \/ ResumeAnyResponse

NextConcurrent ==
    \/ Webhook
    \/ \E m \in ConcurrentMessages : RedeemCmd(m) \/ PicCmd(m)
    \/ Resume

Spec == Init /\ [][Next]_vars

SpecConcurrent == InitConcurrent /\ [][NextConcurrent]_vars

SpecProvider == InitProvider /\ [][NextProvider]_vars

SpecDedup == InitDedup /\ [][NextDedup]_vars


(***************************************************************************)
(* Reading the history.                                                    *)
(***************************************************************************)
\* the _already_processed calls made on a message, in order
Calls == LET HasKey(e) == e.key # NoKey IN SelectSeq(journal, HasKey)

\* the identities other than k recorded by the calls of c strictly between
\* its i-th and its j-th
RecordedBetween(c, i, j, k) ==
    {c[n].key : n \in {x \in (i + 1)..(j - 1) : ~c[x].seen}} \ {k}

FirstCall(c, k) == CHOOSE i \in 1..Len(c) :
                      c[i].key = k /\ \A j \in 1..(i - 1) : c[j].key # k

Distinct(c, n) == \A i, j \in 1..n : i # j => c[i].key # c[j].key

(***************************************************************************)
(* C1.  For any delivery identity k, the first _already_processed call     *)
(* with k returns false and records k; every later call with k returns    *)
(* true as long as fewer than MAX_SEEN other distinct identities have been *)
(* recorded after k, whatever identities are checked in between.           *)
(***************************************************************************)
C1_FirstCallRecordsLaterCallsSeen ==
    LET c == Calls IN
    \A i \in 1..Len(c) :
        LET k == c[i].key
            f == FirstCall(c, k)
        IN IF f = i
           THEN ~c[i].seen /\ (i = Len(c) => k \in SEEN_MSGS)
           ELSE Cardinality(RecordedBetween(c, f, i, k)) < MAX_SEEN => c[i].seen

\* an identity checked, another one checked, the first one checked again and
\* reported seen
C1_Witness ==
    LET c == Calls IN
    \E i, j, l \in 1..Len(c) :
        /\ i < j /\ j < l
        /\ c[i].key = c[l].key /\ c[j].key # c[i].key
        /\ FirstCall(c, c[i].key) = i
        /\ c[l].seen

(***************************************************************************)
(* C2.  After MAX_SEEN + 1 distinct identities have been checked starting  *)
(* from an empty window, exactly MAX_SEEN identities are tracked, the one  *)
(* evicted is the first inserted, and a re-delivery of that first identity *)
(* is reported as not seen.                                                *)
(***************************************************************************)
C2_EvictsFirstInserted ==
    LET c == Calls
        n == MAX_SEEN + 1
    IN (Len(c) >= n /\ Distinct(c, n)) =>
        /\ Len(c) = n =>
              /\ Cardinality(SEEN_MSGS) = MAX_SEEN
              /\ Len(SEEN_ORDER) = MAX_SEEN
              /\ c[1].key \notin SEEN_MSGS
              /\ \A i \in 2..n : c[i].key \in SEEN_MSGS
              /\ SEEN_ORDER = [i \in 1..MAX_SEEN |-> c[i + 1].key]
        /\ (Len(c) > n /\ c[n + 1].key = c[1].key) => ~c[n + 1].seen

\* MAX_SEEN + 1 distinct identities, then the first one again
C2_Witness ==
    LET c == Calls
        n == MAX_SEEN + 1
    IN /\ Len(c) = n + 1
       /\ Distinct(c, n)
       /\ c[n + 1].key = c[1].key
       /\ last.key = c[1].key
       /\ ~last.seen

(***************************************************************************)
(* C3.  In every reachable state _SEEN_MSGS and _SEEN_ORDER hold the same  *)
(* identities, the sequence has no repeated element, and its length is at  *)
(* most MAX_SEEN.                                                          *)
(***************************************************************************)
C3_WindowConsistent ==
    /\ SEEN_MSGS = {SEEN_ORDER[i] : i \in 1..Len(SEEN_ORDER)}
    /\ \A i, j \in 1..Len(SEEN_ORDER) : i # j => SEEN_ORDER[i] # SEEN_ORDER[j]
    /\ Len(SEEN_ORDER) <= MAX_SEEN

\* a full window that has already evicted an entry, after a duplicate
C3_Witness ==
    /\ Len(SEEN_ORDER) = MAX_SEEN
    /\ Cardinality({i \in 1..Len(journal) : journal[i].key # NoKey /\ ~journal[i].seen}) > MAX_SEEN
    /\ \E i \in 1..Len(journal) : journal[i].seen

(***************************************************************************)
(* C5.  Deliveries processed concurrently: of two deliveries with the same *)
(* identity, in whatever order their handlers run and while the first is   *)
(* still suspended, only one obtains "not seen" (unless MAX_SEEN other     *)
(* identities were recorded between them, which evicts the identity: C2).  *)
(***************************************************************************)
C5_GuardAtomic ==
    \A i, j \in 1..Len(journal) :
        (/\ i < j
         /\ journal[i].key # NoKey
         /\ journal[i].key = journal[j].key
         /\ ~journal[i].seen
         /\ ~journal[j].seen)
        => Cardinality(RecordedBetween(journal, i, j, journal[i].key)) >= MAX_SEEN

\* a delivery handled while an earlier delivery of the same identity is
\* still waiting for the provider
C5_Witness ==
    \E t \in tasks :
        /\ t.pc = "generate"
        /\ last.id > t.id
        /\ last.key = t.key
        /\ last.seen


(***************************************************************************)
(* C4 (as amended).  Two deliveries with the same identity, handled by any *)
(* handler and with fewer than MAX_SEEN other identities recorded between  *)
(* them, produce at most one reply in total: the first delivery sends at   *)
(* most one reply, and the second is discarded without any reply,          *)
(* access-state change or provider call.                                   *)
(***************************************************************************)
SameIdentityPairs ==
    {p \in (1..Len(journal)) \X (1..Len(journal)) :
        /\ p[1] < p[2]
        /\ journal[p[1]].key # NoKey
        /\ journal[p[1]].key = journal[p[2]].key
        /\ ~journal[p[1]].seen
        /\ Cardinality(RecordedBetween(journal, p[1], p[2], journal[p[1]].key)) < MAX_SEEN}

C4_DuplicateDiscarded ==
    /\ \A p \in SameIdentityPairs :
          /\ journal[p[2]].seen
          /\ journal[p[2]].done
          /\ journal[p[2]].replies = 0
          /\ journal[p[1]].replies + journal[p[2]].replies <= 1
    /\ last.seen =>
          /\ last.replies = <<>>
          /\ last.calls = 0
          /\ last.pc = "done"
          /\ redeemed_ids = last.before
          /\ \A t \in tasks : t.id # last.id

\* a redeem delivered twice: answered once, discarded the second time
C4_Witness ==
    /\ last.seen
    /\ last.handler = "redeem"
    /\ \E p \in SameIdentityPairs :
          /\ p[2] = last.id
          /\ journal[p[1]].done
          /\ journal[p[1]].replies = 1

\* C4 as stated: once both deliveries are processed, exactly one reply in total
C4_ExactlyOneReply ==
    \A p \in SameIdentityPairs :
        (journal[p[1]].done /\ journal[p[2]].done)
        => journal[p[1]].replies + journal[p[2]].replies = 1

(***************************************************************************)
(* C6.  _is_allowed_user follows the decision table: with a non-empty      *)
(* allow-list, allowed iff the id is in it or a code is set and the id has *)
(* redeemed; else with a code set, allowed iff the id has redeemed; else   *)
(* allowed.                                                                *)
(***************************************************************************)
RequesterIds == Users \cup {3}

DecisionTable(id) ==
    IF allow_ids # {}
    THEN id \in allow_ids \/ (ACCESS_CODE # <<>> /\ id \in redeemed_ids)
    ELSE IF ACCESS_CODE # <<>> THEN id \in redeemed_ids
    ELSE TRUE

C6_AccessDecisionTable ==
    \A id \in RequesterIds : is_allowed_user(id) <=> DecisionTable(id)

\* a requester outside the allow-list admitted to /pic because it redeemed
C6_Witness ==
    /\ allow_ids # {}
    /\ ACCESS_CODE # <<>>
    /\ last.user \notin allow_ids
    /\ last.user \in redeemed_ids
    /\ last.handler = "pic"
    /\ last.pc = "send_action"

(***************************************************************************)
(* C7.  With a redeem code set and an empty allow-list, a requester is     *)
(* denied until a redeem by that requester with the exact code succeeds,   *)
(* is allowed in every later state, and nobody else becomes allowed by it. *)
(***************************************************************************)
CodeOnly == ACCESS_CODE # <<>> /\ allow_ids = {}

C7_Step ==
    CodeOnly =>
        \A u \in Users :
            /\ is_allowed_user(u) => is_allowed_user(u)'
            /\ (~is_allowed_user(u) /\ is_allowed_user(u)') =>
                  /\ last'.handler = "redeem"
                  /\ last'.user = u
                  /\ last'.text = T_redeem \o <<" ">> \o ACCESS_CODE
                  /\ last'.replies = <<Text(R_UNLOCKED)>>
            /\ (/\ last'.id # last.id
                /\ last'.user = u
                /\ last'.replies = <<Text(R_UNLOCKED)>>) => is_allowed_user(u)'

C7_DeniedUntilRedeemed ==
    /\ CodeOnly => \A u \in Users : ~is_allowed_user(u)
    /\ [][C7_Step]_vars

\* one requester has redeemed and is allowed, the other is still turned away
C7_Witness ==
    /\ CodeOnly
    /\ \E u \in Users :
          /\ is_allowed_user(u)
          /\ last.user # u
          /\ ~is_allowed_user(last.user)
          /\ last.handler = "pic"
          /\ ~last.seen
          /\ last.replies = <<Text(R_LOCKED_DM)>>

(***************************************************************************)
(* C8.  redeem has three outcomes: no code configured - "not required",    *)
(* redeemed set unchanged; the supplied code equals the configured one -   *)
(* the requester is added and success reported; any other supplied code -  *)
(* failure reported, redeemed set unchanged.  Failed attempts never stop a *)
(* later correct attempt from succeeding.                                  *)
(***************************************************************************)
HasSuppliedCode(text) == Len(text) > Len(T_redeem) + 1

SuppliedCode(text) == SubSeq(text, Len(T_redeem) + 2, Len(text))

C8_RedeemOutcomes ==
    (last.handler = "redeem" /\ ~last.seen) =>
        /\ ACCESS_CODE = <<>> =>
              /\ last.replies = <<Text(R_NOT_REQ)>>
              /\ redeemed_ids = last.before
        /\ (ACCESS_CODE # <<>> /\ HasSuppliedCode(last.text)
                /\ SuppliedCode(last.text) = ACCESS_CODE) =>
              /\ last.replies = <<Text(R_UNLOCKED)>>
              /\ redeemed_ids = last.before \cup {last.user}
        /\ (ACCESS_CODE # <<>> /\ HasSuppliedCode(last.text)
                /\ SuppliedCode(last.text) # ACCESS_CODE) =>
              /\ last.replies = <<Text(R_INVALID)>>
              /\ redeemed_ids = last.before

\* a requester whose earlier attempt failed redeems with the right code
C8_Witness ==
    /\ last.handler = "redeem"
    /\ ~last.seen
    /\ last.user \in failed_redeems
    /\ last.user \notin last.before
    /\ last.replies = <<Text(R_UNLOCKED)>>
    /\ last.user \in redeemed_ids

(***************************************************************************)
(* C9.  A non-duplicate /pic from a requester who is not allowed gets      *)
(* exactly one text reply, the restricted-access notice, and causes no     *)
(* provider call, whatever the prompt (also when it is empty).             *)
(***************************************************************************)
C9_DeniedPic ==
    (last.handler = "pic" /\ ~last.seen /\ ~is_allowed_user(last.user)) =>
        /\ Len(last.replies) = 1
        /\ last.replies[1] \in RestrictedNotices
        /\ last.calls = 0
        /\ last.pc = "done"
        /\ \A t \in tasks : t.id # last.id

\* a denied requester sends /pic with no prompt
C9_Witness ==
    /\ last.handler = "pic"
    /\ ~last.seen
    /\ ~is_allowed_user(last.user)
    /\ last.text = T_pic
    /\ last.replies = <<Text(R_LOCKED_DM)>>

(***************************************************************************)
(* C10.  A /pic with a prompt from an allowed requester for which the      *)
(* provider returns image bytes produces exactly one photo reply and no    *)
(* text reply; the caption contains the prompt as typed, without the       *)
(* configured prefix.                                                      *)
(***************************************************************************)
TypedPrompt(text) == Strip(SubSeq(text, Len(T_pic) + 1, Len(text)))

C10_PhotoEchoesPrompt ==
    (last.handler = "pic" /\ last.outcome = "image") =>
        /\ Len(last.replies) = 1
        /\ last.replies[1].kind = "photo"
        /\ last.calls = 1
        /\ IsInfix(TypedPrompt(last.text), last.replies[1].body)
        /\ DEFAULT_PROMPT_PREFIX # <<>> =>
              ~IsInfix(DEFAULT_PROMPT_PREFIX, last.replies[1].body)

\* a photo reply sent while a prompt prefix is configured
C10_Witness ==
    /\ last.handler = "pic"
    /\ last.outcome = "image"
    /\ last.text = T_pic_cat
    /\ DEFAULT_PROMPT_PREFIX # <<>>
    /\ last.replies = <<Photo(CAPTION_HEAD \o T_cat)>>

(***************************************************************************)
(* C11.  When the provider cannot be reached (client.post raises), the     *)
(* request is not retried and the requester receives the generic failure   *)
(* reply: every request handed to the provider ends with exactly one       *)
(* reply, the photo or a failure notice.                                   *)
(***************************************************************************)
C11_ExactlyOneReplyPerDispatch ==
    (last.pc = "done" /\ last.calls = 1) =>
        /\ Len(last.replies) = 1
        /\ \/ last.replies[1].kind = "photo"
           \/ last.replies[1] \in {Text(R_BLOCKED), Text(R_FAILED)}
        /\ last.response.net = "error" => last.replies = <<Text(R_FAILED)>>

(***************************************************************************)
(* C12.  Every error that comes from a provider response is answered with  *)
(* exactly one reply: the content-restriction notice when the error text   *)
(* mentions one of the keywords, the generic failure notice otherwise,     *)
(* and the reply never contains the provider's error text.                 *)
(***************************************************************************)
C12_ErrorsMappedToTwoReplies ==
    (/\ last.pc = "done"
     /\ last.calls = 1
     /\ last.response.net = "ok"
     /\ last.result.kind # "bytes") =>
        /\ Len(last.replies) = 1
        /\ last.replies[1] =
              IF MentionsRestriction(last.result.text)
              THEN Text(R_BLOCKED) ELSE Text(R_FAILED)
        /\ last.response.text # <<>> =>
              ~IsInfix(last.response.text, last.replies[1].body)

(***************************************************************************)
(* C13.  The prompt handed to the adapter is, with a non-empty prefix, the *)
(* prefix, one space and the user prompt (prefix "P", prompt "a cat":      *)
(* "P a cat"); with an empty prefix it is the user prompt unchanged.       *)
(***************************************************************************)
UserPrompt(d) ==
    IF d.handler = "pic" THEN TypedPrompt(d.text) ELSE Strip(d.text)

C13_PrefixedPrompt ==
    last.calls = 1 =>
        last.sent = IF DEFAULT_PROMPT_PREFIX # <<>>
                    THEN DEFAULT_PROMPT_PREFIX \o <<" ">> \o UserPrompt(last)
                    ELSE UserPrompt(last)

\* prefix "P" and "/pic  a cat": the adapter is called with "P a cat"
C13_Witness ==
    /\ DEFAULT_PROMPT_PREFIX = <<"P">>
    /\ last.text = T_pic_cat
    /\ last.pc = "generate"
    /\ last.calls = 1
    /\ last.sent = <<"P", " ", "a", " ", "c", "a", "t">>

(***************************************************************************)
(* C14.  The img2img adapter classifies every response into exactly one    *)
(* outcome: a status other than 200 - a ProviderHTTP error carrying status *)
(* and body; a JSON content type - the decoded bytes of the first          *)
(* artifact's base64 image, or a ProviderEmpty error when there is no      *)
(* artifact or it has no base64 image; an image content type - the body    *)
(* bytes; any other content type - a ProviderUnrecognized error naming the *)
(* content type.  No response makes it fail with anything but an           *)
(* ImageGenError.                                                          *)
(***************************************************************************)
Answered(provider) ==
    /\ PROVIDER = provider
    /\ last.pc = "done"
    /\ last.calls = 1
    /\ last.response.net = "ok"

IsError(res, err) == res.kind = "ImageGenError" /\ res.err = err

C14_Img2ImgClassifies ==
    Answered("stability") =>
        LET r   == last.response
            res == last.result
        IN
        /\ res.kind \in {"bytes", "ImageGenError"}
        /\ r.status # 200 =>
              /\ IsError(res, "ProviderHTTP")
              /\ IsInfix(<<StatusText(r.status)>>, res.text)
              /\ IsInfix(r.text, res.text)
        /\ (r.status = 200 /\ IsInfix(C_json, r.ctype) /\ r.json) =>
              IF r.entries = 0 \/ r.b64 = "absent"
              THEN IsError(res, "ProviderEmpty")
              ELSE res.kind = "bytes" /\ res.bytes = r.image
        /\ (r.status = 200 /\ ~IsInfix(C_json, r.ctype) /\ StartsWith(r.ctype, <<"image/">>)) =>
              res.kind = "bytes" /\ res.bytes = r.image
        /\ (r.status = 200 /\ ~IsInfix(C_json, r.ctype) /\ ~StartsWith(r.ctype, <<"image/">>)) =>
              /\ IsError(res, "ProviderUnrecognized")
              /\ r.ctype # <<>> => IsInfix(r.ctype, res.text)

(***************************************************************************)
(* C15.  Free text in a group or supergroup never causes a provider call   *)
(* or a reply, whoever sends it and whatever the access state; in such a   *)
(* conversation only /pic reaches the provider.                            *)
(***************************************************************************)
InGroup(key) == ChatTypeOf(key[1]) \in {"group", "supergroup"}

C15_GroupFreeTextIgnored ==
    /\ (last.handler = "text" /\ InGroup(last.key)) =>
          /\ last.replies = <<>>
          /\ last.calls = 0
          /\ last.pc = "done"
          /\ \A t \in tasks : t.id # last.id
    /\ \A t \in tasks : InGroup(t.key) => t.handler = "pic"
    /\ (last.calls = 1 /\ InGroup(last.key)) => last.handler = "pic"

\* an admitted requester's free text in a group is dropped while a /pic of a
\* supergroup is with the provider
C15_Witness ==
    /\ last.handler = "text"
    /\ last.key[1] = -1
    /\ ~last.seen
    /\ is_allowed_user(last.user)
    /\ last.replies = <<>>
    /\ \E t \in tasks : t.key[1] = -2 /\ t.handler = "pic" /\ t.pc = "generate"

(***************************************************************************)
(* C16.  The edit adapter resolves a status-200 response in a fixed order: *)
(* an inline base64 image in the first data entry is decoded and returned  *)
(* without a secondary request, also when a URL is present; else a URL is  *)
(* fetched with exactly one GET, whose failure is a ProviderFetch error;   *)
(* else the call fails with a ProviderEmpty error.  A status other than    *)
(* 200 is a ProviderHTTP error before any parsing.                         *)
(***************************************************************************)
C16_EditResolutionOrder ==
    Answered("openai") =>
        LET r   == last.response
            res == last.result
        IN
        /\ r.status # 200 => IsError(res, "ProviderHTTP") /\ res.gets = 0
        /\ (r.status = 200 /\ r.json /\ r.entries > 0 /\ r.b64 = "valid") =>
              /\ res.kind = "bytes"
              /\ res.bytes = r.image
              /\ res.gets = 0
        /\ (r.status = 200 /\ r.json /\ r.entries > 0 /\ r.b64 = "absent" /\ r.url) =>
              /\ res.gets = 1
              /\ r.fetch = "ok" => res.kind = "bytes" /\ res.bytes = r.image
              /\ r.fetch # "ok" => IsError(res, "ProviderFetch")
        /\ (r.status = 200 /\ r.json /\ (r.entries = 0 \/ (r.b64 = "absent" /\ ~r.url))) =>
              IsError(res, "ProviderEmpty") /\ res.gets = 0

\* a response with both an inline image and a URL: decoded, no GET
C16_Witness ==
    /\ Answered("openai")
    /\ last.response.status = 200
    /\ last.response.b64 = "valid"
    /\ last.response.url
    /\ last.result.kind = "bytes"
    /\ last.result.gets = 0
    /\ last.replies = <<PhotoReply(UserPrompt(last))>>

(***************************************************************************)
(* C17 (as amended).  A non-duplicate delivery from an admitted requester  *)
(* whose prompt is empty never reaches the provider: /pic answers with     *)
(* exactly one usage reply, free text in a private chat ends without any   *)
(* reply.                                                                  *)
(***************************************************************************)
\* the delivery last handled was not a duplicate, came from an admitted
\* requester on one of the two entry points and carried no prompt
EmptyPromptAdmitted ==
    /\ ~last.seen
    /\ is_allowed_user(last.user)
    /\ \/ last.handler = "pic" /\ TypedPrompt(last.text) = <<>>
       \/ /\ last.handler = "text"
          /\ ChatTypeOf(last.key[1]) = "private"
          /\ Strip(last.text) = <<>>

C17_EmptyPromptNoDispatch ==
    EmptyPromptAdmitted =>
        /\ last.replies = IF last.handler = "pic" THEN <<Text(R_PIC_USE)>> ELSE <<>>
        /\ last.calls = 0
        /\ last.pc = "done"
        /\ \A t \in tasks : t.id # last.id

\* an admitted requester sends a blank text in a private chat
C17_Witness ==
    /\ EmptyPromptAdmitted
    /\ last.handler = "text"
    /\ last.text = T_blank
    /\ last.replies = <<>>
    /\ last.pc = "done"

\* C17 as stated: the usage reply on both entry points
C17_EmptyPromptGetsUsage ==
    EmptyPromptAdmitted =>
        /\ last.replies = <<Text(R_PIC_USE)>>
        /\ last.calls = 0
        /\ last.pc = "done"

(***************************************************************************)
(* C18.  A provider call in flight excludes nothing: every accepted        *)
(* delivery can be handled (dedup check, access check, redeem) while       *)
(* calls are in flight, a request can be handed to the provider while      *)
(* another one is, and every call in flight can complete next, whatever    *)
(* the order the calls were started in.                                    *)
(***************************************************************************)
Deliverable(m) == \A x \in inbox : Identity(x) = Identity(m) => x = m

InFlight == {t \in tasks : t.pc = "generate"}

C18_NoExclusionWhileInFlight ==
    /\ \A t \in tasks : t.pc = "send_action" => ENABLED CallProvider(t)
    /\ \A t \in InFlight : ENABLED (\E r \in CoreResponses : ProviderReturns(t, r))
    /\ (InFlight # {} /\ pending > 0) =>
          \A m \in ConcurrentMessages : Deliverable(m) => ENABLED Dispatch(m)

\* the first request is still with the provider; meanwhile a requester
\* redeemed, was admitted, had a request dispatched and answered
C18_Witness ==
    /\ \E t \in tasks : t.id = 1 /\ t.pc = "generate"
    /\ last.id = 3
    /\ last.calls = 1
    /\ last.pc = "done"
    /\ last.outcome = "image"
    /\ last.user \in redeemed_ids
    /\ journal[2].done

(***************************************************************************)
(* C19.  The access state changes only by a successful redeem, which adds  *)
(* the redeeming requester's id to _redeemed_ids: the allow-list and the   *)
(* code never change, _redeemed_ids never shrinks, no other handler        *)
(* changes it, and without a configured code it stays empty.               *)
(***************************************************************************)
C19_Step ==
    /\ allow_ids' = allow_ids
    /\ ACCESS_CODE' = ACCESS_CODE
    /\ redeemed_ids \subseteq redeemed_ids'
    /\ redeemed_ids' # redeemed_ids =>
          /\ last'.id # last.id
          /\ last'.handler = "redeem"
          /\ ~last'.seen
          /\ last'.replies = <<Text(R_UNLOCKED)>>
          /\ redeemed_ids' = redeemed_ids \cup {last'.user}
    /\ (last'.id # last.id /\ last'.handler # "redeem") => redeemed_ids' = redeemed_ids

C19_AccessStateFrame ==
    /\ [](ACCESS_CODE = <<>> => redeemed_ids = {})
    /\ [][C19_Step]_vars

\* a second requester redeems: its id is added, the first one's stays
C19_Witness ==
    /\ last.handler = "redeem"
    /\ ~last.seen
    /\ last.before # {}
    /\ last.user \notin last.before
    /\ redeemed_ids = last.before \cup {last.user}
    /\ redeemed_ids = Users

(***************************************************************************)
(* C20.  A delivery's identity is in the dedup window before any of its    *)
(* processing happens, so processing is at most once: when the first       *)
(* delivery ends without a reply (the provider call raised, send_action    *)
(* raised), a re-delivery of the identity within the window is discarded   *)
(* and the message is never answered.                                      *)
(***************************************************************************)
C20_RecordedBeforeProcessing ==
    /\ (last.key # NoKey /\ ~last.seen /\ last.pc = "send_action") =>
          last.key \in SEEN_MSGS
    /\ \A t \in tasks :
          \A i \in (t.id + 1)..Len(journal) :
              (/\ journal[i].key = t.key
               /\ Cardinality(RecordedBetween(journal, t.id, i, t.key)) < MAX_SEEN)
              => journal[i].seen /\ journal[i].replies = 0 /\ journal[i].done
    /\ \A p \in SameIdentityPairs :
          (journal[p[1]].done /\ journal[p[1]].replies = 0) =>
              /\ journal[p[2]].seen
              /\ journal[p[2]].done
              /\ journal[p[1]].replies + journal[p[2]].replies = 0

\* a /pic whose provider call raised is delivered again and discarded
C20_Witness ==
    /\ last.seen
    /\ last.handler = "pic"
    /\ last.replies = <<>>
    /\ \E p \in SameIdentityPairs :
          /\ p[2] = last.id
          /\ journal[p[1]].done
          /\ journal[p[1]].replies = 0
    /\ Cardinality(inbox) = 1

====
